---- MODULE Spec2Model ----
(***************************************************************************)
(* The bootstrap loader of api/src/cmd/admin/bootstrap.rs: one database    *)
(* transaction that applies every discovered JSON file to the store.       *)
(*                                                                         *)
(* Strings that the code splits on '.' are kept as the sequence of their   *)
(* dot-delimited segments (the two are in bijection): a file name          *)
(* "a.team.json" is <<"a", "team", "json">>, an API key "p.i.r" is a        *)
(* sequence of three segments.  A segment of an API key is a sequence of   *)
(* characters, a character being its index in the URL-safe base64          *)
(* alphabet (0..63) or NotB64 for any character outside of it.             *)
(***************************************************************************)
EXTENDS Integers, Sequences, FiniteSets

VARIABLES
    store,      \* committed rows of the database, what every other session reads
    pending,    \* rows written by the open transaction, not yet committed
    txOpen,     \* the bootstrap transaction is open
    deferred,   \* SET CONSTRAINTS ALL DEFERRED is in force in the transaction
    pc,         \* position of bootstrap(): "start", "begin", "glob", "files",
                \* "array", "done"
    files,      \* the discovered files, in glob's order
    idx,        \* index in files of the next file to apply
    elems,      \* elements of the array being applied by apply_file
    result,     \* "running", then "Ok" or the error bootstrap() returned
    seen,       \* what a concurrent reader session last read
    seenInTx,   \* the transaction had uncommitted writes when the reader read
    initial,    \* the store before bootstrap started
    location,   \* args.location: "dir", a directory that exists; "missing", one
                \* that does not; "malformed", a text glob cannot parse
    fault,      \* what the environment refuses in this run: "none", "setup",
                \* "deferral", "traversal"
    context,    \* vars, the template context: the names it defines
    log         \* the statements sent on the connection, in order

vars == <<store, pending, txOpen, deferred, pc, files, idx, elems, result, seen,
          seenInTx, initial, location, fault, context, log>>

(***************************************************************************)
(* Bounds of the model.                                                    *)
(***************************************************************************)
MaxFiles == 2

(***************************************************************************)
(* JSON values (serde_json::Value).                                        *)
(***************************************************************************)
JObject(o) == [t |-> "object", o |-> o]
JArray(a) == [t |-> "array", a |-> a]
JString == [t |-> "string"]
JNumber == [t |-> "number"]
JBool == [t |-> "bool"]
JNull == [t |-> "null"]

\* A field value of a JSON type its column cannot be decoded from.
BadValue == -1

(***************************************************************************)
(* Type classification and dispatch (apply_object).                        *)
(***************************************************************************)
\* filename.rsplit('.').nth(1): the second segment from the right, if any.
ObjectType(filename) ==
    IF Len(filename) >= 2
    THEN [found |-> TRUE, tag |-> filename[Len(filename) - 1]]
    ELSE [found |-> FALSE, tag |-> ""]

\* The arms of `match object_type`, without the plural spellings.
TableOfSingularOnly(tag) ==
    CASE tag = "user" -> "users"
      [] tag = "user_role" -> "user_roles"
      [] tag = "team" -> "teams"
      [] tag = "project" -> "projects"
      [] tag = "conversion_profile" -> "conversion_profiles"
      [] tag = "storage_location" -> "storage_locations"
      [] tag = "upload_profile" -> "upload_profiles"
      [] tag = "role" -> "roles"
      [] tag = "role_permission" -> "role_permissions"
      [] tag = "api_key" -> "api_keys"
      [] OTHER -> "unknown"

\* A match whose user arm inserts into teams and whose team arm into users.
TableOfMisrouted(tag) ==
    CASE tag \in {"user", "users"} -> "teams"
      [] tag \in {"user_role", "user_roles"} -> "user_roles"
      [] tag \in {"team", "teams"} -> "users"
      [] tag \in {"project", "projects"} -> "projects"
      [] tag \in {"conversion_profile", "conversion_profiles"} -> "conversion_profiles"
      [] tag \in {"storage_location", "storage_locations"} -> "storage_locations"
      [] tag \in {"upload_profile", "upload_profiles"} -> "upload_profiles"
      [] tag \in {"role", "roles"} -> "roles"
      [] tag \in {"role_permission", "role_permissions"} -> "role_permissions"
      [] tag \in {"api_key", "api_keys"} -> "api_keys"
      [] OTHER -> "unknown"

\* The arms of `match object_type`: the table each tag selects.
TableOf(tag) ==
    CASE tag \in {"user", "users"} -> "users"
      [] tag \in {"user_role", "user_roles"} -> "user_roles"
      [] tag \in {"team", "teams"} -> "teams"
      [] tag \in {"project", "projects"} -> "projects"
      [] tag \in {"conversion_profile", "conversion_profiles"} -> "conversion_profiles"
      [] tag \in {"storage_location", "storage_locations"} -> "storage_locations"
      [] tag \in {"upload_profile", "upload_profiles"} -> "upload_profiles"
      [] tag \in {"role", "roles"} -> "roles"
      [] tag \in {"role_permission", "role_permissions"} -> "role_permissions"
      [] tag \in {"api_key", "api_keys"} -> "api_keys"
      [] OTHER -> "unknown"

(***************************************************************************)
(* The schema of the store: columns, primary keys and foreign keys of the  *)
(* tables (section 3 of the specification; the table definitions are not   *)
(* part of the loader).                                                    *)
(***************************************************************************)
Columns(table) ==
    CASE table \in {"users", "teams", "roles"} -> {"id"}
      [] table \in {"projects", "conversion_profiles", "storage_locations",
                    "upload_profiles"} -> {"id", "team_id"}
      [] table = "user_roles" -> {"user_id", "team_id", "role_id"}
      [] table = "role_permissions" -> {"role_id", "permission"}

PrimaryKey(table, cols) ==
    CASE table = "user_roles" -> <<cols.user_id, cols.team_id, cols.role_id>>
      [] table = "role_permissions" -> <<cols.role_id, cols.permission>>
      [] OTHER -> <<cols.id>>

\* The rows (table, key) a row refers to by foreign key.
References(row) ==
    CASE row.table \in {"projects", "conversion_profiles", "storage_locations",
                        "upload_profiles"} ->
            {<<"teams", <<row.cols.team_id>>>>}
      [] row.table = "user_roles" ->
            {<<"users", <<row.cols.user_id>>>>, <<"teams", <<row.cols.team_id>>>>,
             <<"roles", <<row.cols.role_id>>>>}
      [] row.table = "role_permissions" -> {<<"roles", <<row.cols.role_id>>>>}
      [] row.table = "api_keys" ->
            {<<"teams", <<row.cols.team_id>>>>, <<"users", <<row.cols.user_id>>>>}
      [] OTHER -> {}

Row(table, cols) == [table |-> table, key |-> PrimaryKey(table, cols), cols |-> cols]

\* Every foreign key of every row of `rows` has its target in `rows`.
ForeignKeysHold(rows) ==
    \A r \in rows : \A ref \in References(r) :
        \E t \in rows : t.table = ref[1] /\ t.key = ref[2]

(***************************************************************************)
(* The database session (PgConnection inside the transaction).  A          *)
(* connection value is [store, pending, deferred]; an operation on it      *)
(* returns [err, store, pending], err = "" for Ok(()).                     *)
(***************************************************************************)
Ok(conn) == [err |-> "", store |-> conn.store, pending |-> conn.pending]
Err(e, conn) == [err |-> e, store |-> conn.store, pending |-> conn.pending]

\* An INSERT that is applied at once to the committed store, as a session
\* without an open transaction would do.
ExecuteAutocommit(conn, row) ==
    IF \E r \in conn.store \cup conn.pending : r.table = row.table /\ r.key = row.key
    THEN Err("DatabaseError", conn)
    ELSE [err |-> "", store |-> conn.store \cup {row}, pending |-> conn.pending]

\* diesel::insert_into(table).values(&value).execute(conn) inside the
\* transaction: a duplicate primary key fails at once; a foreign key is
\* checked at once only when constraints are not deferred.
Execute(conn, row) ==
    IF \E r \in conn.store \cup conn.pending : r.table = row.table /\ r.key = row.key
    THEN Err("DatabaseError", conn)
    ELSE IF ~conn.deferred /\ ~ForeignKeysHold(conn.store \cup conn.pending \cup {row})
    THEN Err("DatabaseError", conn)
    ELSE [err |-> "", store |-> conn.store, pending |-> conn.pending \cup {row}]

\* serde_json::from_value::<$type>(obj): every column of the type is present
\* and of the right JSON type; fields the type does not have are ignored.
Decode(table, o) ==
    IF Columns(table) \subseteq DOMAIN o /\ \A c \in Columns(table) : o[c] # BadValue
    THEN [ok |-> TRUE, cols |-> [c \in Columns(table) |-> o[c]]]
    ELSE [ok |-> FALSE, cols |-> <<>>]

\* The macro insert_object!: decode, then insert.
InsertObject(conn, table, o) ==
    LET d == Decode(table, o)
    IN  IF ~d.ok THEN Err("DecodeError", conn)
        ELSE Execute(conn, Row(table, d.cols))

(***************************************************************************)
(* API keys.                                                               *)
(***************************************************************************)
\* A character that is not in the URL-safe base64 alphabet.
NotB64 == 64
\* Bytes of a Uuid.
UuidBytes == 16
\* pic_store_api::auth::API_KEY_PREFIX, as characters.
API_KEY_PREFIX == <<15, 18>>

RECURSIVE B64Bytes(_)
\* The bytes of a sequence of base64 characters, 6 bits each.
B64Bytes(s) ==
    IF Len(s) >= 4
    THEN <<s[1] * 4 + s[2] \div 16,
           (s[2] % 16) * 16 + s[3] \div 4,
           (s[3] % 4) * 64 + s[4]>> \o B64Bytes(SubSeq(s, 5, Len(s)))
    ELSE IF Len(s) = 3
    THEN <<s[1] * 4 + s[2] \div 16, (s[2] % 16) * 16 + s[3] \div 4>>
    ELSE IF Len(s) = 2
    THEN <<s[1] * 4 + s[2] \div 16>>
    ELSE <<>>

\* base64::decode_config(part, URL_SAFE_NO_PAD)
B64Decode(s) ==
    LET n == Len(s)
        tail == IF n % 4 = 2 THEN s[n] % 16 ELSE IF n % 4 = 3 THEN s[n] % 4 ELSE 0
    IN  IF \E i \in 1..n : s[i] \notin 0..63 THEN [ok |-> FALSE, bytes |-> <<>>]
        ELSE IF n % 4 = 1 \/ tail # 0 THEN [ok |-> FALSE, bytes |-> <<>>]
        ELSE [ok |-> TRUE, bytes |-> B64Bytes(s)]

\* base64 decoding followed by Uuid::from_slice: exactly 16 bytes.
DecodeUuid(part) ==
    LET d == B64Decode(part)
    IN  IF d.ok /\ Len(d.bytes) = UuidBytes
        THEN [ok |-> TRUE, uuid |-> d.bytes]
        ELSE [ok |-> FALSE, uuid |-> <<>>]

NoKey(e) == [err |-> e, id |-> <<>>, random |-> <<>>]

\* The key checks with the prefix compared before the parts are counted.
ParseApiKeyPrefixFirst(parts) ==
    IF parts[1] # API_KEY_PREFIX THEN NoKey("PrefixMismatch")
    ELSE IF Len(parts) # 3 THEN NoKey("MalformedCredential")
    ELSE IF ~DecodeUuid(parts[2]).ok THEN NoKey("MalformedCredential")
    ELSE IF ~DecodeUuid(parts[3]).ok THEN NoKey("MalformedCredential")
    ELSE [err |-> "", id |-> DecodeUuid(parts[2]).uuid,
          random |-> DecodeUuid(parts[3]).uuid]

\* input.key.split('.') and the checks on its parts, in the code's order.
ParseApiKey(parts) ==
    IF Len(parts) # 3 THEN NoKey("MalformedCredential")
    ELSE IF parts[1] # API_KEY_PREFIX THEN NoKey("PrefixMismatch")
    ELSE IF ~DecodeUuid(parts[2]).ok THEN NoKey("MalformedCredential")
    ELSE IF ~DecodeUuid(parts[3]).ok THEN NoKey("MalformedCredential")
    ELSE [err |-> "", id |-> DecodeUuid(parts[2]).uuid,
          random |-> DecodeUuid(parts[3]).uuid]

\* The fields of ApiKeyInput.
ApiKeyInputFields ==
    {"key", "name", "team_id", "user_id", "inherits_user_permissions", "expires"}

DecodeApiKeyInput(o) ==
    ApiKeyInputFields \subseteq DOMAIN o
    /\ \A c \in ApiKeyInputFields \ {"key"} : o[c] # BadValue

RECURSIVE Sum(_)
Sum(s) == IF s = <<>> THEN 0 ELSE Head(s) + Sum(Tail(s))

\* pic_store_auth::api_key::ApiKeyData::from_params: the prefix and the bytes
\* of a digest of (prefix, id, random, expires).
FromParams(prefix, id, random, expires) ==
    [prefix |-> prefix,
     hash |-> [i \in 1..UuidBytes |->
                 (31 * id[i] + 17 * random[i] + 7 * expires + 3 * Sum(prefix) + i) % 256]]

\* The reading of the wall clock, Utc::now().
UtcNow == "now"

\* A row that keeps the random component of the key where the hash belongs.
ApiKeyValueKeepingRandom(o, k) ==
    [id |-> k.id, name |-> o.name, prefix |-> API_KEY_PREFIX,
     hash |-> k.random, team_id |-> o.team_id, user_id |-> o.user_id,
     inherits_user_permissions |-> o.inherits_user_permissions,
     created |-> UtcNow, expires |-> o.expires]

\* A row whose hash is derived with the id and the random component exchanged.
ApiKeyValueSwapped(o, k) ==
    LET data == FromParams(API_KEY_PREFIX, k.random, k.id, o.expires)
    IN  [id |-> k.id, name |-> o.name, prefix |-> data.prefix,
         hash |-> data.hash, team_id |-> o.team_id, user_id |-> o.user_id,
         inherits_user_permissions |-> o.inherits_user_permissions,
         created |-> UtcNow, expires |-> o.expires]

\* `let value = db::api_keys::ApiKey { .. }`
ApiKeyValue(o, k) ==
    LET data == FromParams(API_KEY_PREFIX, k.id, k.random, o.expires)
    IN  [id |-> k.id, name |-> o.name, prefix |-> data.prefix,
         hash |-> data.hash, team_id |-> o.team_id, user_id |-> o.user_id,
         inherits_user_permissions |-> o.inherits_user_permissions,
         created |-> UtcNow, expires |-> o.expires]

\* The "api_key" | "api_keys" arm of apply_object.
ApplyApiKey(conn, o) ==
    IF ~DecodeApiKeyInput(o) THEN Err("DecodeError", conn)
    ELSE LET k == ParseApiKey(o.key)
         IN  IF k.err # "" THEN Err(k.err, conn)
             ELSE Execute(conn, Row("api_keys", ApiKeyValue(o, k)))

(***************************************************************************)
(* apply_object and apply_file.                                            *)
(***************************************************************************)
ApplyObject(conn, filename, o) ==
    LET ty == ObjectType(filename)
        table == TableOf(ty.tag)
    IN  IF ~ty.found THEN Err("UnknownObjectType", conn)
        ELSE IF table = "unknown" THEN Err("UnknownObjectType", conn)
        ELSE IF table = "api_keys" THEN ApplyApiKey(conn, o)
        ELSE InsertObject(conn, table, o)

\* An array element that is no object is passed over.
ApplyElementSkipping(conn, filename, v) ==
    IF v.t # "object" THEN Ok(conn)
    ELSE ApplyObject(conn, filename, v.o)

\* The body of `for obj in a`: an element that is no object is an error.
ApplyElement(conn, filename, v) ==
    IF v.t # "object" THEN Err("MalformedRecord", conn)
    ELSE ApplyObject(conn, filename, v.o)

\* parser.parse_file, template.render and serde_json::from_str: the JSON value
\* of the file, or the error of the first of the three that fails.  A template
\* fails to render when it uses a variable the context does not define.
Environment == {"DATABASE_URL", "HOME"}

\* liquid::to_object(&env::vars().collect()): the context defines the variables
\* of the process environment.
ToObject(env) == env

\* An apply_file that classifies the name of the file before it reads it.
RenderInClassifyingFirst(ctx, file) ==
    IF TableOf(ObjectType(file.name).tag) = "unknown" THEN "UnknownObjectType"
    ELSE IF ~file.readable THEN "ReadError"
    ELSE IF ~file.template_ok \/ ~(file.uses \subseteq ctx) THEN "TemplateError"
    ELSE IF ~file.json_ok THEN "ParseError"
    ELSE ""

\* The three stages against a context: parse_file reads the file and parses the
\* template, render resolves its variables, from_str parses the output.
RenderIn(ctx, file) ==
    IF ~file.readable THEN "ReadError"
    ELSE IF ~file.template_ok \/ ~(file.uses \subseteq ctx) THEN "TemplateError"
    ELSE IF ~file.json_ok THEN "ParseError"
    ELSE ""

Render(file) == RenderIn(ToObject(Environment), file)

\* A render that leaves in the context the variables the template assigned.
ContextAfterKeepingAssigns(ctx, file) == ctx \cup file.assigns

\* apply_file borrows the context, `vars: &liquid::Object`: what a template
\* assigns lives in the runtime of its own render.
ContextAfter(ctx, file) == ctx

(***************************************************************************)
(* bootstrap(): the transaction and the loop over the discovered files.    *)
(***************************************************************************)
\* The statement the transaction starts with leaves constraints immediate.
SetConstraintsImmediate == FALSE

\* sql_query("SET CONSTRAINTS ALL DEFERRED").execute(conn)
SetConstraintsAllDeferred == TRUE

\* A transaction that keeps what it wrote when its closure returned an error.
RollbackKeepsWrites(st, pend) == st \cup pend

\* build_transaction().run: the closure returned Err, the transaction is
\* rolled back and the store is what it was.
Rollback(st, pend) == st

\* A commit that does not check the deferred constraints.
CommitUnchecked(st, pend) == [err |-> "", store |-> st \cup pend]

\* build_transaction().run: the closure returned Ok, the transaction commits;
\* the deferred constraints are checked now and a violation rolls it back.
Commit(st, pend) ==
    IF ForeignKeysHold(st \cup pend)
    THEN [err |-> "", store |-> st \cup pend]
    ELSE [err |-> "IntegrityError", store |-> Rollback(st, pend)]

Conn == [store |-> store, pending |-> pending, deferred |-> deferred]

\* The statements apply_object sent when it returned r: the insert, unless the
\* object was refused before it.
Sent(r) == IF r.err \in {"", "DatabaseError"} THEN <<"INSERT">> ELSE <<>>

\* An error returned with `?` out of the closure, after the statements stmts
\* were sent: rollback, bootstrap returns the error.
Fail(e, st, pend, stmts) ==
    /\ store' = Rollback(st, pend)
    /\ pending' = {}
    /\ txOpen' = FALSE
    /\ result' = e
    /\ pc' = "done"
    /\ log' = log \o stmts \o <<"ROLLBACK">>
    /\ UNCHANGED <<deferred, files, idx, elems, seen, seenInTx, initial, location, fault>>

\* A bootstrap that returns Ok whatever the transaction returned.
ReturnedIgnoringError(err) == "Ok"

\* `})?; Ok(())`: what bootstrap returns once the transaction has returned.
Returned(err) == IF err = "" THEN "Ok" ELSE err

\* glob::glob(file_glob): an error on a pattern it cannot parse, else the
\* paths under the root that match, none when there is no such root.
Glob(loc, tree) ==
    IF loc = "malformed" THEN [err |-> "DiscoveryError", paths |-> <<>>]
    ELSE IF loc = "missing" THEN [err |-> "", paths |-> <<>>]
    ELSE [err |-> "", paths |-> tree]

\* bootstrap before the transaction: DATABASE_URL, the connection, the glob
\* pattern, the template context and the parser.
Setup ==
    /\ pc = "start" /\ fault # "setup"
    /\ context' = ToObject(Environment)
    /\ pc' = "begin"
    /\ UNCHANGED <<store, pending, txOpen, deferred, files, idx, elems, result, seen,
                   seenInTx, initial, location, fault, log>>

\* One of them fails: bootstrap returns the error, no transaction was opened.
SetupFails ==
    /\ pc = "start" /\ fault = "setup"
    /\ result' = "SetupError"
    /\ pc' = "done"
    /\ UNCHANGED <<store, pending, txOpen, deferred, files, idx, elems, seen,
                   seenInTx, initial, location, fault, context, log>>

\* conn.build_transaction().run(..) up to the first statement of the closure.
Begin ==
    /\ pc = "begin" /\ fault # "deferral"
    /\ txOpen' = TRUE
    /\ deferred' = SetConstraintsAllDeferred
    /\ log' = log \o <<"BEGIN", "SET CONSTRAINTS ALL DEFERRED">>
    /\ pc' = "glob"
    /\ UNCHANGED <<store, pending, files, idx, elems, result, seen, seenInTx, initial,
                   location, fault, context>>

\* The first statement of the closure fails: the transaction that was opened
\* for it is rolled back.
BeginFails ==
    /\ pc = "begin" /\ fault = "deferral"
    /\ Fail("DatabaseError", store, pending, <<"BEGIN", "SET CONSTRAINTS ALL DEFERRED">>)
    /\ UNCHANGED context

\* `glob::glob(file_glob.as_str())?` returns the iterator over the paths.
GlobPaths ==
    /\ pc = "glob"
    /\ Glob(location, files).err = ""
    /\ files' = Glob(location, files).paths
    /\ pc' = "files"
    /\ UNCHANGED <<store, pending, txOpen, deferred, idx, elems, result, seen,
                   seenInTx, initial, location, fault, context, log>>

\* `glob::glob(file_glob.as_str())?` returns a PatternError.
GlobFails ==
    /\ pc = "glob"
    /\ Glob(location, files).err # ""
    /\ Fail(Glob(location, files).err, store, pending, <<>>)
    /\ UNCHANGED context

CurrentFile == files[idx]

\* `let file = file?;`: the iterator yields a GlobError, a directory it could
\* not read, once the files before it have been applied.
TraversalFails ==
    /\ pc = "files" /\ idx > Len(files)
    /\ fault = "traversal"
    /\ Fail("DiscoveryError", store, pending, <<>>)
    /\ UNCHANGED context

\* apply_file: the file cannot be read, parsed as a template, rendered or read
\* as JSON.
RenderFails ==
    /\ pc = "files" /\ idx <= Len(files)
    /\ RenderIn(context, CurrentFile) # ""
    /\ Fail(RenderIn(context, CurrentFile), store, pending, <<>>)
    /\ context' = ContextAfter(context, CurrentFile)

\* apply_file, `objs @ Value::Object(_) => apply_object(..)?`
ApplyTopLevelObject ==
    /\ pc = "files" /\ idx <= Len(files)
    /\ RenderIn(context, CurrentFile) = ""
    /\ CurrentFile.value.t = "object"
    /\ context' = ContextAfter(context, CurrentFile)
    /\ LET r == ApplyObject(Conn, CurrentFile.name, CurrentFile.value.o)
       IN  IF r.err # "" THEN Fail(r.err, r.store, r.pending, Sent(r))
           ELSE /\ store' = r.store
                /\ pending' = r.pending
                /\ idx' = idx + 1
                /\ log' = log \o Sent(r)
                /\ UNCHANGED <<txOpen, deferred, pc, files, elems, result, seen,
                               seenInTx, initial, location, fault>>

\* apply_file, `Value::Array(a) => for obj in a`
EnterArray ==
    /\ pc = "files" /\ idx <= Len(files)
    /\ RenderIn(context, CurrentFile) = ""
    /\ CurrentFile.value.t = "array"
    /\ context' = ContextAfter(context, CurrentFile)
    /\ elems' = CurrentFile.value.a
    /\ pc' = "array"
    /\ UNCHANGED <<store, pending, txOpen, deferred, files, idx, result, seen,
                   seenInTx, initial, location, fault, log>>

\* apply_file, `_ => return Err(anyhow!("Expected object, found ..."))`
TopLevelNotObject ==
    /\ pc = "files" /\ idx <= Len(files)
    /\ RenderIn(context, CurrentFile) = ""
    /\ CurrentFile.value.t \notin {"object", "array"}
    /\ Fail("MalformedRecord", store, pending, <<>>)
    /\ context' = ContextAfter(context, CurrentFile)

\* One iteration of `for obj in a`.
ArrayElement ==
    /\ pc = "array" /\ elems # <<>>
    /\ UNCHANGED context
    /\ LET r == ApplyElement(Conn, CurrentFile.name, Head(elems))
       IN  IF r.err # "" THEN Fail(r.err, r.store, r.pending, Sent(r))
           ELSE /\ store' = r.store
                /\ pending' = r.pending
                /\ elems' = Tail(elems)
                /\ log' = log \o Sent(r)
                /\ UNCHANGED <<txOpen, deferred, pc, files, idx, result, seen,
                               seenInTx, initial, location, fault>>

\* The array is exhausted: apply_file returns Ok(()).
ArrayDone ==
    /\ pc = "array" /\ elems = <<>>
    /\ pc' = "files"
    /\ idx' = idx + 1
    /\ UNCHANGED <<store, pending, txOpen, deferred, files, elems, result, seen,
                   seenInTx, initial, location, fault, context, log>>

\* The paths are exhausted: the closure returns Ok(()) and the transaction
\* commits, or is rolled back when the commit fails.
CommitTransaction ==
    /\ pc = "files" /\ idx > Len(files)
    /\ fault # "traversal"
    /\ LET c == Commit(store, pending)
       IN  /\ store' = c.store
           /\ result' = Returned(c.err)
           /\ log' = log \o (IF c.err = "" THEN <<"COMMIT">> ELSE <<"COMMIT", "ROLLBACK">>)
    /\ pending' = {}
    /\ txOpen' = FALSE
    /\ pc' = "done"
    /\ UNCHANGED <<deferred, files, idx, elems, seen, seenInTx, initial, location,
                   fault, context>>

\* Another session reads the tables: it sees the committed rows only.
Reader ==
    /\ seen' = store
    /\ seenInTx' = (pending # {})
    /\ UNCHANGED <<store, pending, txOpen, deferred, pc, files, idx, elems, result,
                   initial, location, fault, context, log>>

\* The steps of bootstrap().
Step ==
    \/ Setup
    \/ SetupFails
    \/ Begin
    \/ BeginFails
    \/ GlobPaths
    \/ GlobFails
    \/ TraversalFails
    \/ RenderFails
    \/ ApplyTopLevelObject
    \/ EnterArray
    \/ TopLevelNotObject
    \/ ArrayElement
    \/ ArrayDone
    \/ CommitTransaction

Next == Step \/ Reader

(***************************************************************************)
(* bootstrap() as a function of the store it finds and of the files under  *)
(* the root, in glob's order: the result it returns and the store it       *)
(* leaves.                                                                 *)
(***************************************************************************)
RECURSIVE ApplyElements(_, _, _)
\* apply_file, the whole of `for obj in a { .. }`
ApplyElements(conn, filename, a) ==
    IF a = <<>> THEN Ok(conn)
    ELSE LET r == ApplyElement(conn, filename, Head(a))
         IN  IF r.err # "" THEN r
             ELSE ApplyElements([conn EXCEPT !.store = r.store, !.pending = r.pending],
                                filename, Tail(a))

\* An apply_file whose arm for a single object returns Ok without applying it.
ApplyFileArraysOnly(conn, file) ==
    IF Render(file) # "" THEN Err(Render(file), conn)
    ELSE IF file.value.t = "array" THEN ApplyElements(conn, file.name, file.value.a)
    ELSE IF file.value.t = "object" THEN Ok(conn)
    ELSE Err("MalformedRecord", conn)

\* apply_file
ApplyFile(conn, file) ==
    IF Render(file) # "" THEN Err(Render(file), conn)
    ELSE IF file.value.t = "array" THEN ApplyElements(conn, file.name, file.value.a)
    ELSE IF file.value.t = "object" THEN ApplyObject(conn, file.name, file.value.o)
    ELSE Err("MalformedRecord", conn)

RECURSIVE ApplyFiles(_, _)
\* `for file in glob::glob(..)? { apply_file(..)?; }`
ApplyFiles(conn, fs) ==
    IF fs = <<>> THEN Ok(conn)
    ELSE LET r == ApplyFile(conn, Head(fs))
         IN  IF r.err # "" THEN r
             ELSE ApplyFiles([conn EXCEPT !.store = r.store, !.pending = r.pending],
                             Tail(fs))

\* bootstrap
Bootstrap(st, fs) ==
    LET g == Glob(location, fs)
        r == ApplyFiles([store |-> st, pending |-> {},
                         deferred |-> SetConstraintsAllDeferred], g.paths)
        c == Commit(r.store, r.pending)
    IN  IF fault = "setup" THEN [result |-> "SetupError", store |-> st]
        ELSE IF fault = "deferral"
        THEN [result |-> "DatabaseError", store |-> Rollback(st, {})]
        ELSE IF g.err # "" THEN [result |-> g.err, store |-> Rollback(st, {})]
        ELSE IF r.err # "" THEN [result |-> r.err, store |-> Rollback(r.store, r.pending)]
        ELSE IF fault = "traversal"
        THEN [result |-> "DiscoveryError", store |-> Rollback(r.store, r.pending)]
        ELSE [result |-> Returned(c.err), store |-> c.store]

(***************************************************************************)
(* The files a bootstrap directory may hold.  glob's pattern ends in       *)
(* "/*.json": every discovered name has "json" as its last segment.        *)
(***************************************************************************)
File(name, value) ==
    [name |-> name, readable |-> TRUE, template_ok |-> TRUE, uses |-> {},
     assigns |-> {}, json_ok |-> TRUE, value |-> value]

Team(i) == [id |-> i]
User(i) == [id |-> i]
Project(i, t) == [id |-> i, team_id |-> t]

TeamFile == File(<<"a", "team", "json">>, JObject(Team(1)))
TeamsFile ==
    [File(<<"b", "teams", "json">>, JObject(Team(2))) EXCEPT !.assigns = {"TEAM_ID"}]
UsersFile == File(<<"c", "users", "json">>, JObject(User(1)))
ProjectFile == File(<<"p", "project", "json">>, JObject(Project(1, 1)))
ProjectsArray ==
    File(<<"q", "projects", "json">>,
         JArray(<<JObject(Project(2, 1)), JObject(Project(3, 1))>>))
DanglingProject == File(<<"r", "project", "json">>, JObject(Project(4, 9)))
DuplicateTeam == File(<<"d", "team", "json">>, JArray(<<JObject(Team(1))>>))
WidgetObject == File(<<"x", "widget", "json">>, JObject(Team(5)))
WidgetEmpty == File(<<"y", "widget", "json">>, JArray(<<>>))
WidgetArray ==
    File(<<"z", "widget", "json">>, JArray(<<JObject(Team(6)), JObject(Team(7))>>))
TwoSegments == File(<<"user", "json">>, JObject(User(2)))
TwoSegmentsUnknown == File(<<"data", "json">>, JObject(User(3)))
BareString == File(<<"s", "team", "json">>, JString)
MixedArray == File(<<"t", "teams", "json">>, JArray(<<JObject(Team(3)), JNumber>>))
MissingField == File(<<"u", "user", "json">>, JObject([name |-> 1]))
BadJson == [File(<<"v", "widget", "json">>, JNull) EXCEPT !.json_ok = FALSE]
Unreadable == [File(<<"n", "widget", "json">>, JNull) EXCEPT !.readable = FALSE]
UndefinedVariable ==
    [File(<<"w", "team", "json">>, JObject(Team(8))) EXCEPT !.uses = {"TEAM_ID"}]

Catalogue ==
    {TeamFile, TeamsFile, ProjectFile, ProjectsArray, DanglingProject, DuplicateTeam,
     WidgetObject, WidgetEmpty, WidgetArray, TwoSegments, TwoSegmentsUnknown,
     BareString, MixedArray, MissingField, BadJson, Unreadable, UndefinedVariable}

\* API keys: 22 base64 characters hold the 16 bytes of a Uuid.
Segment(len, c) == [i \in 1..len |-> IF i = len THEN 0 ELSE c]
IdPart == Segment(22, 1)
RandomPart == Segment(22, 2)
ShortPart == Segment(20, 1)
BadCharPart == [Segment(22, 1) EXCEPT ![3] = NotB64]
OtherPrefix == <<15, 19>>

ApiKeyInput(key, n) ==
    [key |-> key, name |-> n, team_id |-> 9, user_id |-> 9,
     inherits_user_permissions |-> 1, expires |-> 7]
KeyFile(stem, key) == File(<<stem, "api_key", "json">>, JObject(ApiKeyInput(key, 1)))

GoodKey == KeyFile("k1", <<API_KEY_PREFIX, IdPart, RandomPart>>)
TwoParts == KeyFile("k2", <<API_KEY_PREFIX, IdPart>>)
FourParts == KeyFile("k3", <<API_KEY_PREFIX, IdPart, RandomPart, RandomPart>>)
WrongPrefix == KeyFile("k4", <<OtherPrefix, IdPart, RandomPart>>)
WrongPrefixTwoParts == KeyFile("k5", <<OtherPrefix, IdPart>>)
WrongPrefixBadId == KeyFile("k6", <<OtherPrefix, BadCharPart, RandomPart>>)
BadId == KeyFile("k7", <<API_KEY_PREFIX, BadCharPart, RandomPart>>)
ShortId == KeyFile("k8", <<API_KEY_PREFIX, ShortPart, RandomPart>>)
ShortRandom == KeyFile("k9", <<API_KEY_PREFIX, IdPart, ShortPart>>)
BadIdShortRandom == KeyFile("k10", <<API_KEY_PREFIX, BadCharPart, ShortPart>>)
KeysArray ==
    File(<<"k11", "api_keys", "json">>,
         JArray(<<JObject(ApiKeyInput(<<API_KEY_PREFIX, RandomPart, IdPart>>, 2)),
                  JObject(ApiKeyInput(<<API_KEY_PREFIX, IdPart, BadCharPart>>, 3))>>))
KeysPair ==
    File(<<"k13", "api_keys", "json">>,
         JArray(<<JObject(ApiKeyInput(<<API_KEY_PREFIX, Segment(22, 3), RandomPart>>, 4)),
                  JObject(ApiKeyInput(<<API_KEY_PREFIX, Segment(22, 4), RandomPart>>, 5))>>))
KeyWithoutName ==
    File(<<"k12", "api_key", "json">>,
         JObject([key |-> <<OtherPrefix>>, team_id |-> 9, user_id |-> 9]))

CredentialCatalogue ==
    {GoodKey, TwoParts, FourParts, WrongPrefix, WrongPrefixTwoParts, WrongPrefixBadId,
     BadId, ShortId, ShortRandom, BadIdShortRandom, KeysArray, KeysPair,
     KeyWithoutName, TeamFile, BareString, BadJson}

\* A directory with a file of each of the ten types.
RoleFile == File(<<"e", "role", "json">>, JObject([id |-> 1]))
ConversionProfilesFile ==
    File(<<"f", "conversion_profiles", "json">>, JObject([id |-> 1, team_id |-> 1]))
StorageLocationFile ==
    File(<<"g", "storage_location", "json">>, JObject([id |-> 1, team_id |-> 9]))
UploadProfilesFile ==
    File(<<"h", "upload_profiles", "json">>,
         JArray(<<JObject([id |-> 1, team_id |-> 9]), JObject([id |-> 2, team_id |-> 1])>>))
UserRoleFile ==
    File(<<"i", "user_role", "json">>,
         JObject([user_id |-> 9, team_id |-> 9, role_id |-> 1]))
RolePermissionsFile ==
    File(<<"j", "role_permissions", "json">>, JObject([role_id |-> 1, permission |-> 1]))
MistypedField ==
    File(<<"m", "projects", "json">>,
         JArray(<<JObject(Project(5, 9)), JObject([id |-> 6, team_id |-> BadValue])>>))

DispatchCatalogue ==
    {UsersFile, TeamFile, RoleFile, ProjectFile, ConversionProfilesFile,
     StorageLocationFile, UploadProfilesFile, UserRoleFile, RolePermissionsFile,
     GoodKey, MissingField, MistypedField, KeyWithoutName, BareString, BadJson}

\* The stores bootstrap may find: a fresh one, or one that holds a team and a user.
InitialStores == {{}, {Row("teams", Team(9)), Row("users", User(9))}}

\* What the environment may refuse, and the locations bootstrap may be given.
Faults == {"none", "setup", "deferral", "traversal"}
Locations == {"dir", "missing", "malformed"}

\* The orders in which glob may yield at most MaxFiles files of a directory.
Orders(catalogue) ==
    UNION {{s \in [1..n -> catalogue] : \A i, j \in 1..n : i # j => s[i] # s[j]} :
           n \in 0..MaxFiles}

\* Nothing is under a root that does not exist; the runs in which the
\* environment refuses something are those of at most one file.
InitOf(catalogue) ==
    /\ files \in Orders(catalogue)
    /\ location \in Locations
    /\ fault \in Faults
    /\ location # "dir" => files = <<>>
    /\ fault # "none" => Len(files) <= 1 /\ location = "dir"
    /\ context = {}
    /\ log = <<>>
    /\ initial \in InitialStores
    /\ store = initial
    /\ pending = {}
    /\ txOpen = FALSE
    /\ deferred = FALSE
    /\ pc = "start"
    /\ idx = 1
    /\ elems = <<>>
    /\ result = "running"
    /\ seen = initial
    /\ seenInTx = FALSE

Init == InitOf(Catalogue)
Spec == Init /\ [][Next]_vars

\* bootstrap() is sequential code on one thread: a step it can take, it takes.
SpecLive == Init /\ [][Next]_vars /\ WF_vars(Step)

\* The same program on directories of API key files.
InitCredentials == InitOf(CredentialCatalogue)
SpecCredentials == InitCredentials /\ [][Next]_vars

\* The same program on directories with files of every type.
InitDispatch == InitOf(DispatchCatalogue)
SpecDispatch == InitDispatch /\ [][Next]_vars

(***************************************************************************)
(* What a load is made of, whatever the order of its files.                *)
(***************************************************************************)
\* The JSON values apply_file hands on, one by one, for a file.
Elements(file) ==
    IF file.value.t = "array" THEN file.value.a ELSE <<file.value>>

\* The number of records a file holds.
RecordCount(file) == IF file.value.t = "array" THEN Len(file.value.a) ELSE 1

RECURSIVE TotalRecords(_)
TotalRecords(fs) == IF fs = <<>> THEN 0 ELSE RecordCount(Head(fs)) + TotalRecords(Tail(fs))

\* The row an object of a file is decoded to, if it is decoded to one.
RowOf(filename, o) ==
    LET table == TableOf(ObjectType(filename).tag)
    IN  IF ~ObjectType(filename).found \/ table = "unknown"
        THEN [ok |-> FALSE, row |-> <<>>]
        ELSE IF table = "api_keys"
        THEN IF DecodeApiKeyInput(o) /\ ParseApiKey(o.key).err = ""
             THEN [ok |-> TRUE, row |-> Row(table, ApiKeyValue(o, ParseApiKey(o.key)))]
             ELSE [ok |-> FALSE, row |-> <<>>]
        ELSE IF Decode(table, o).ok
        THEN [ok |-> TRUE, row |-> Row(table, Decode(table, o).cols)]
        ELSE [ok |-> FALSE, row |-> <<>>]

\* A file every stage of apply_file accepts, short of the database.
WellFormed(file) ==
    /\ Render(file) = ""
    /\ file.value.t \in {"object", "array"}
    /\ \A i \in 1..Len(Elements(file)) :
          /\ Elements(file)[i].t = "object"
          /\ RowOf(file.name, Elements(file)[i].o).ok

\* The rows of the objects of a file that are decoded to one.
FileRows(file) ==
    {RowOf(file.name, Elements(file)[i].o).row :
        i \in {j \in 1..Len(Elements(file)) :
                  /\ Elements(file)[j].t = "object"
                  /\ RowOf(file.name, Elements(file)[j].o).ok}}

\* The rows of the load.
LoadRows == UNION {FileRows(files[i]) : i \in 1..Len(files)}

Done == pc = "done"

\* The environment refuses nothing and the pattern is one glob can parse: what
\* bootstrap returns is decided by the files and the store.
NoFault == fault = "none" /\ location # "malformed"
Committed == Done /\ result = "Ok"
RolledBack == Done /\ result # "Ok"

\* The step-by-step run and the function agree (a check of the model itself).
RunIsBootstrap ==
    Done => Bootstrap(initial, files) = [result |-> result, store |-> store]

\* No two records of the load, and no record of the load and row of the store
\* bootstrap found, have the same primary key.
KeysDistinct ==
    /\ Cardinality({<<r.table, r.key>> : r \in LoadRows}) = TotalRecords(files)
    /\ \A r \in LoadRows : ~\E t \in initial : t.table = r.table /\ t.key = r.key

AllWellFormed == \A i \in 1..Len(files) : WellFormed(files[i])

\* The value apply_file was handing on when bootstrap failed.
Failing == IF elems # <<>> THEN Head(elems) ELSE files[idx].value

(***************************************************************************)
(* C1                                                                      *)
(***************************************************************************)
\* A file on which apply_file returns an error whatever the store holds.
Invalid(file) == ~WellFormed(file)

\* C1. Atomicity: when bootstrap has returned, the store holds the rows it held
\* before and either every record of every file (commit) or no record of the load
\* (rollback); with exactly one invalid file among the files, at any position,
\* it holds no record of the load.
Atomicity ==
    Done =>
        /\ \/ /\ Committed
              /\ store = initial \cup LoadRows
              /\ Cardinality(store \ initial) = TotalRecords(files)
           \/ RolledBack /\ store = initial
        /\ Cardinality({i \in 1..Len(files) : Invalid(files[i])}) = 1 => store = initial

\* The invalid file is the second one and an array whose first element was
\* inserted before the failure; the first file had inserted its records.
AtomicityWitness ==
    /\ RolledBack /\ store = initial
    /\ idx = 2
    /\ Cardinality({i \in 1..Len(files) : Invalid(files[i])}) = 1
    /\ WellFormed(files[1]) /\ RecordCount(files[1]) >= 1
    /\ files[2].value.t = "array"
    /\ elems # <<>> /\ Len(elems) < Len(files[2].value.a)

(***************************************************************************)
(* C2                                                                      *)
(***************************************************************************)
\* C2. Isolation: whatever a concurrent reader reads, at any point of a running
\* bootstrap, holds none of the records of the load or, once the load has
\* committed, all of them.
Isolation ==
    \/ seen = initial
    \/ /\ Committed
       /\ seen = store
       /\ Cardinality(seen \ initial) = TotalRecords(files)

\* The reader read while the transaction had uncommitted rows and saw none of
\* them; the load then committed them.
IsolationWitness ==
    /\ Committed /\ store # initial
    /\ seenInTx /\ seen = initial

(***************************************************************************)
(* C3                                                                      *)
(***************************************************************************)
\* C3. Constraint deferral: in a load of well-formed files with distinct keys no
\* insert fails, whether or not the rows it refers to are there yet, and the load
\* commits when every foreign key has its target in the store or in the load.
ConstraintDeferral ==
    (Done /\ NoFault /\ AllWellFormed /\ KeysDistinct) =>
        /\ result \in {"Ok", "IntegrityError"}
        /\ ForeignKeysHold(initial \cup LoadRows) => Committed

\* A committed load in which a file refers to a row of a file discovered after it.
ConstraintDeferralWitness ==
    /\ Committed
    /\ \E i, j \in 1..Len(files) :
          /\ i < j
          /\ \E r \in FileRows(files[i]), t \in FileRows(files[j]) :
                /\ <<t.table, t.key>> \in References(r)
                /\ t \notin initial

(***************************************************************************)
(* C4                                                                      *)
(***************************************************************************)
\* C4. Commit-time integrity: the committed store never holds a dangling foreign
\* key, and when every file has been applied without error and a record of the
\* load refers to a row that is neither in the store nor in the load, bootstrap
\* returns IntegrityError and the store holds no record of the load.
CommitTimeIntegrity ==
    /\ ForeignKeysHold(store)
    /\ (Done /\ NoFault /\ idx > Len(files) /\ ~ForeignKeysHold(initial \cup LoadRows)) =>
          result = "IntegrityError" /\ store = initial

CommitTimeIntegrityWitness ==
    /\ Done /\ idx > Len(files)
    /\ LoadRows # {}
    /\ ~ForeignKeysHold(initial \cup LoadRows)
    /\ result = "IntegrityError"

(***************************************************************************)
(* C5                                                                      *)
(***************************************************************************)
\* The permutations of a sequence.
PermutationsOf(s) ==
    {[i \in 1..Len(s) |-> s[f[i]]] :
        f \in {g \in [1..Len(s) -> 1..Len(s)] :
                  \A i, j \in 1..Len(s) : i # j => g[i] # g[j]}}

\* A file, with the objects of its array in any order.
Shuffled(file) ==
    IF file.value.t = "array"
    THEN {[file EXCEPT !.value = JArray(a)] : a \in PermutationsOf(file.value.a)}
    ELSE {file}

RECURSIVE ShuffledEach(_)
ShuffledEach(fs) ==
    IF fs = <<>> THEN {<<>>}
    ELSE {<<f>> \o rest : f \in Shuffled(Head(fs)), rest \in ShuffledEach(Tail(fs))}

\* The files in any order, the objects of each array in any order.
Reorderings(fs) == UNION {ShuffledEach(p) : p \in PermutationsOf(fs)}

\* C5. Order independence: bootstrap on any reordering of the files, and of the
\* objects of their arrays, takes the same decision to commit or to roll back as
\* this run and, on commit, leaves the same store.
OrderIndependence ==
    Done => \A p \in Reorderings(files) :
                LET b == Bootstrap(initial, p)
                IN  /\ (b.result = "Ok") = (result = "Ok")
                    /\ result = "Ok" => b.store = store

\* A committed load whose first file refers to a row of a later file, with an
\* array of two objects among its files.
OrderIndependenceWitness ==
    /\ Committed
    /\ \E i \in 1..Len(files) : files[i].value.t = "array" /\ Len(files[i].value.a) >= 2
    /\ \E r \in FileRows(files[1]), j \in 2..Len(files) :
          \E t \in FileRows(files[j]) : <<t.table, t.key>> \in References(r)

(***************************************************************************)
(* C6, C7                                                                  *)
(***************************************************************************)
\* The singular and the plural spelling of the tag of each type.
TagPairs ==
    {<<"user", "users">>, <<"user_role", "user_roles">>, <<"team", "teams">>,
     <<"project", "projects">>, <<"conversion_profile", "conversion_profiles">>,
     <<"storage_location", "storage_locations">>,
     <<"upload_profile", "upload_profiles">>, <<"role", "roles">>,
     <<"role_permission", "role_permissions">>, <<"api_key", "api_keys">>}

KnownTags == {pr[1] : pr \in TagPairs} \cup {pr[2] : pr \in TagPairs}

\* The rendered content is a single object or an array of objects.
WellShaped(file) ==
    /\ Render(file) = ""
    /\ file.value.t \in {"object", "array"}
    /\ \A i \in 1..Len(Elements(file)) : Elements(file)[i].t = "object"

\* C6. Unknown type rejection: when a discovered file <name>.<tag>.json has a
\* tag that is no known tag, bootstrap fails and the store holds no record of the
\* load, whatever number of objects the file holds; the error is
\* UnknownObjectType when it is the only file.
UnknownTypeRejected ==
    (Done /\ NoFault /\ \E i \in 1..Len(files) :
                /\ Len(files[i].name) >= 3
                /\ files[i].name[Len(files[i].name) - 1] \notin KnownTags
                /\ WellShaped(files[i])) =>
        /\ RolledBack
        /\ store = initial
        /\ Len(files) = 1 => result = "UnknownObjectType"

\* C7. Type classification: when a discovered file that holds at least one
\* object has a name of fewer than three dot-delimited segments, bootstrap fails
\* and no record is inserted; the error is UnknownObjectType when it is the only
\* file.
ShortNameRejected ==
    (Done /\ NoFault /\ \E i \in 1..Len(files) :
                /\ Len(files[i].name) < 3
                /\ WellShaped(files[i])
                /\ RecordCount(files[i]) >= 1) =>
        /\ RolledBack
        /\ store = initial
        /\ Len(files) = 1 => result = "UnknownObjectType"

(***************************************************************************)
(* C8                                                                      *)
(***************************************************************************)
\* The name with the other spelling of its tag.
Respelt(name) ==
    LET tag == name[Len(name) - 1]
    IN  IF \E pr \in TagPairs : tag = pr[1]
        THEN [name EXCEPT ![Len(name) - 1] = (CHOOSE pr \in TagPairs : tag = pr[1])[2]]
        ELSE IF \E pr \in TagPairs : tag = pr[2]
        THEN [name EXCEPT ![Len(name) - 1] = (CHOOSE pr \in TagPairs : tag = pr[2])[1]]
        ELSE name

RECURSIVE Respellings(_)
\* The files, each under its name or under the name with the other spelling.
Respellings(fs) ==
    IF fs = <<>> THEN {<<>>}
    ELSE {<<f>> \o rest :
            f \in {Head(fs), [Head(fs) EXCEPT !.name = Respelt(Head(fs).name)]},
            rest \in Respellings(Tail(fs))}

\* The objects of the discovered files.
LoadObjects ==
    UNION {{Elements(files[i])[j].o :
                j \in {k \in 1..Len(Elements(files[i])) :
                          Elements(files[i])[k].t = "object"}} :
           i \in 1..Len(files)}

\* C8. Type synonym equivalence: for each of the ten types, applying an object
\* under the singular and under the plural tag has the same effect on the
\* connection and the same result, in every state of the transaction; and
\* bootstrap on the files named with the other spelling of their tags returns
\* what this run returned and leaves the same store.
SynonymEquivalence ==
    /\ \A pr \in TagPairs : \A o \in LoadObjects :
          ApplyObject(Conn, <<"x", pr[1], "json">>, o)
              = ApplyObject(Conn, <<"x", pr[2], "json">>, o)
    /\ Done => \A s \in Respellings(files) :
                  Bootstrap(initial, s) = [result |-> result, store |-> store]

\* A committed load with a file of the singular and a file of the plural tag of
\* one type, both in the same table.
SynonymEquivalenceWitness ==
    /\ Committed
    /\ \E i, j \in 1..Len(files) : \E pr \in TagPairs :
          /\ ObjectType(files[i].name).tag = pr[1]
          /\ ObjectType(files[j].name).tag = pr[2]
          /\ \E r \in FileRows(files[i]), t \in FileRows(files[j]) :
                r \in store /\ t \in store /\ r.table = t.table /\ r # t

(***************************************************************************)
(* C9                                                                      *)
(***************************************************************************)
\* The records of the files applied so far.
RecordsSoFar ==
    TotalRecords(SubSeq(files, 1, idx - 1))
        + (IF pc = "array" THEN Len(files[idx].value.a) - Len(elems) ELSE 0)

\* C9. Top-level shape: each array of n objects that has been applied has
\* inserted n records and each single object one; a file whose rendered top
\* level is neither fails with MalformedRecord, an array element that is no
\* object fails with MalformedRecord, and a load with such a file leaves no
\* record in the store.
TopLevelShape ==
    /\ pc \in {"files", "array"} => Cardinality(pending) = RecordsSoFar
    /\ Committed => Cardinality(store \ initial) = TotalRecords(files)
    /\ (Done /\ NoFault /\ idx <= Len(files) /\ Render(files[idx]) = "") =>
          /\ files[idx].value.t \notin {"object", "array"} => result = "MalformedRecord"
          /\ Failing.t # "object" => result = "MalformedRecord"
    /\ (Done /\ \E i \in 1..Len(files) : Render(files[i]) = "" /\ ~WellShaped(files[i]))
          => RolledBack /\ store = initial

\* An array whose first element was inserted and whose second is no object.
TopLevelShapeWitness ==
    /\ RolledBack /\ result = "MalformedRecord" /\ store = initial
    /\ files[idx].value.t = "array"
    /\ Len(elems) < Len(files[idx].value.a)
    /\ Failing.t # "object"

(***************************************************************************)
(* C10                                                                     *)
(***************************************************************************)
\* A part that is the unpadded URL-safe base64 of exactly 16 bytes.
IsUuidPart(part) ==
    /\ Len(part) = 22
    /\ \A i \in 1..22 : part[i] \in 0..63
    /\ part[22] % 16 = 0

\* The error of a key: the count of its parts, then the prefix, then the id,
\* then the random part.
CredentialError(parts) ==
    IF Len(parts) # 3 THEN "MalformedCredential"
    ELSE IF parts[1] # API_KEY_PREFIX THEN "PrefixMismatch"
    ELSE IF ~IsUuidPart(parts[2]) THEN "MalformedCredential"
    ELSE IF ~IsUuidPart(parts[3]) THEN "MalformedCredential"
    ELSE ""

IsApiKeyFile(file) == ObjectType(file.name).tag \in {"api_key", "api_keys"}

\* The API key inputs of the load.
ApiKeyInputs ==
    UNION {{Elements(files[i])[j].o :
                j \in {k \in 1..Len(Elements(files[i])) :
                          /\ Elements(files[i])[k].t = "object"
                          /\ DecodeApiKeyInput(Elements(files[i])[k].o)}} :
           i \in {k \in 1..Len(files) : Render(files[k]) = "" /\ IsApiKeyFile(files[k])}}

\* C10. Credential validation: bootstrap fails on the first API key input whose
\* key is not three parts (MalformedCredential), else has another prefix
\* (PrefixMismatch), else has an id or random part that is not the base64 of 16
\* bytes (MalformedCredential); a load with such an input inserts no row.
CredentialValidation ==
    /\ (Done /\ NoFault /\ idx <= Len(files) /\ Render(files[idx]) = ""
             /\ IsApiKeyFile(files[idx])
             /\ Failing.t = "object" /\ DecodeApiKeyInput(Failing.o)
             /\ CredentialError(Failing.o.key) # "") =>
          result = CredentialError(Failing.o.key)
    /\ (Done /\ \E o \in ApiKeyInputs : CredentialError(o.key) # "") =>
          RolledBack /\ store = initial
    /\ \A r \in store \cup pending : r.table = "api_keys" =>
          \E o \in ApiKeyInputs :
              CredentialError(o.key) = "" /\ r.cols.id = DecodeUuid(o.key[2]).uuid

\* A key of two parts with another prefix: the count of the parts is the error.
CredentialValidationWitness ==
    /\ RolledBack /\ result = "MalformedCredential" /\ store = initial
    /\ idx <= Len(files) /\ IsApiKeyFile(files[idx])
    /\ Failing.t = "object" /\ DecodeApiKeyInput(Failing.o)
    /\ Len(Failing.o.key) = 2 /\ Failing.o.key[1] # API_KEY_PREFIX

(***************************************************************************)
(* C11                                                                     *)
(***************************************************************************)
RECURSIVE KeyText(_)
\* The key as it was presented: its parts, a '.' between them.
KeyText(parts) ==
    IF Len(parts) <= 1 THEN Head(parts)
    ELSE Head(parts) \o <<NotB64>> \o KeyText(Tail(parts))

\* The API key inputs of the load whose key is accepted.
ValidKeyInputs == {o \in ApiKeyInputs : CredentialError(o.key) = ""}

\* What of a key must not be stored: the key itself, its random part and the
\* bytes the random part decodes to.
Secrets(o) == {KeyText(o.key), o.key[3], DecodeUuid(o.key[3]).uuid}

\* The columns of the api_keys table.
ApiKeyColumns ==
    {"id", "name", "prefix", "hash", "team_id", "user_id",
     "inherits_user_permissions", "created", "expires"}

\* C11. The raw secret is never persisted: at every point of a load and after
\* it, an api_keys row has the nine columns id, name, prefix, hash, team_id,
\* user_id, inherits_user_permissions, created, expires and its prefix and hash
\* are neither a presented key, nor its random part, nor the decoded random
\* component; its id is none of them unless that is the id of a key of the
\* load; a row of another table has the columns of its table only.
SecretNeverPersisted ==
    \A r \in store \cup pending :
        IF r.table = "api_keys"
        THEN /\ DOMAIN r.cols = ApiKeyColumns
             /\ \A o \in ValidKeyInputs :
                   /\ r.cols.prefix \notin Secrets(o)
                   /\ r.cols.hash \notin Secrets(o)
                   /\ r.cols.id \in Secrets(o) =>
                         \E u \in ValidKeyInputs : r.cols.id = DecodeUuid(u.key[2]).uuid
        ELSE DOMAIN r.cols \subseteq Columns(r.table)

\* The load has committed the rows of two keys that have the same random part.
SecretNeverPersistedWitness ==
    /\ Committed
    /\ \E r, t \in store \ initial :
          r # t /\ r.table = "api_keys" /\ t.table = "api_keys"
    /\ \E o, u \in ValidKeyInputs : o # u /\ o.key[3] = u.key[3]

(***************************************************************************)
(* C12                                                                     *)
(***************************************************************************)
\* Other values of the four arguments of the derivation.
SamplePrefixes == {API_KEY_PREFIX, OtherPrefix, <<15>>}
SampleUuids == {DecodeUuid(Segment(22, c)).uuid : c \in 1..5}
SampleExpires == {0, 7, 8}

\* The hash is the derivation of (P, U, R, E) and of no tuple of the samples
\* that differs from it in one component.
RoundTrips(hash, P, U, R, E) ==
    /\ hash = FromParams(P, U, R, E).hash
    /\ \A p \in SamplePrefixes \ {P} : hash # FromParams(p, U, R, E).hash
    /\ \A u \in SampleUuids \ {U} : hash # FromParams(P, u, R, E).hash
    /\ \A x \in SampleUuids \ {R} : hash # FromParams(P, U, x, E).hash
    /\ \A e \in SampleExpires \ {E} : hash # FromParams(P, U, R, e).hash

\* C12. Credential round-trip: every api_keys row, written or committed, is the
\* row of an accepted key P.I.R of the load with expiry E: its primary key and
\* its id are U, the 16 bytes I decodes to, its prefix is P and its hash is the
\* derivation of (P, U, R, E), R the 16 bytes of R's part, which the derivation
\* reproduces and which changes when one of the four changes; a committed load
\* has such a row for each accepted key.
CredentialRoundTrip ==
    LET U(o) == DecodeUuid(o.key[2]).uuid
        R(o) == DecodeUuid(o.key[3]).uuid
        IsRowOf(r, o) ==
            /\ r.key = <<U(o)>>
            /\ r.cols.id = U(o)
            /\ r.cols.prefix = o.key[1]
            /\ r.cols.expires = o.expires
            /\ RoundTrips(r.cols.hash, o.key[1], U(o), R(o), o.expires)
    IN  /\ \A r \in store \cup pending : r.table = "api_keys" =>
              \E o \in ValidKeyInputs : IsRowOf(r, o)
        /\ Committed => \A o \in ValidKeyInputs :
              \E r \in store : r.table = "api_keys" /\ IsRowOf(r, o)

\* A committed key whose id part and random part differ, with the row of it.
CredentialRoundTripWitness ==
    /\ Committed
    /\ \E o \in ValidKeyInputs :
          /\ o.key[2] # o.key[3]
          /\ \E r \in store \ initial :
                r.table = "api_keys" /\ r.cols.id = DecodeUuid(o.key[2]).uuid

(***************************************************************************)
(* C13                                                                     *)
(***************************************************************************)
\* C13. Discovery failure: when the root directory does not exist, or the glob
\* pattern made of it is malformed, bootstrap returns DiscoveryError, commits
\* nothing and leaves the store as it found it.
DiscoveryFailure ==
    (Done /\ fault = "none" /\ location \in {"missing", "malformed"}) =>
        /\ result = "DiscoveryError"
        /\ store = initial
        /\ \A i \in 1..Len(log) : log[i] # "COMMIT"

(***************************************************************************)
(* C14                                                                     *)
(***************************************************************************)
\* The stages of a file before its records, in their order: the error of the
\* first that fails.
FileStageError(file) ==
    IF ~file.readable THEN "ReadError"
    ELSE IF ~file.template_ok \/ ~(file.uses \subseteq Environment) THEN "TemplateError"
    ELSE IF ~file.json_ok THEN "ParseError"
    ELSE IF file.value.t \notin {"object", "array"} THEN "MalformedRecord"
    ELSE ""

\* The stages of a record of a file short of the insert, in their order:
\* classify, then decode.
RecordStageError(filename, v) ==
    LET table == TableOf(ObjectType(filename).tag)
    IN  IF v.t # "object" THEN "MalformedRecord"
        ELSE IF ~ObjectType(filename).found \/ table = "unknown" THEN "UnknownObjectType"
        ELSE IF table = "api_keys"
        THEN IF ~DecodeApiKeyInput(v.o) THEN "DecodeError" ELSE CredentialError(v.o.key)
        ELSE IF ~Decode(table, v.o).ok THEN "DecodeError"
        ELSE ""

\* The number of records that went through every stage before the failure.
RecordsBeforeFailure ==
    TotalRecords(SubSeq(files, 1, idx - 1))
        + (IF files[idx].value.t = "array" /\ FileStageError(files[idx]) = ""
           THEN Len(files[idx].value.a) - Len(elems) ELSE 0)

\* The number of inserts sent on the connection.
Inserts == Cardinality({i \in 1..Len(log) : log[i] = "INSERT"})

\* Bootstrap has failed on the file files[idx].
FailedOnFile == Done /\ NoFault /\ idx <= Len(files)

\* The error is the error of the first stage that fails, of the first record
\* and of the first file that has one; what was before went through every
\* stage, what is after went through none.
FirstError ==
    FailedOnFile =>
        /\ \A i \in 1..(idx - 1) :
              /\ FileStageError(files[i]) = ""
              /\ \A j \in 1..Len(Elements(files[i])) :
                    RecordStageError(files[i].name, Elements(files[i])[j]) = ""
        /\ IF FileStageError(files[idx]) # ""
           THEN result = FileStageError(files[idx]) /\ Inserts = RecordsBeforeFailure
           ELSE IF RecordStageError(files[idx].name, Failing) # ""
           THEN result = RecordStageError(files[idx].name, Failing)
                /\ Inserts = RecordsBeforeFailure
           ELSE result = "DatabaseError" /\ Inserts = RecordsBeforeFailure + 1
        /\ store = initial /\ pending = {} /\ ~txOpen
        /\ log[Len(log)] = "ROLLBACK"

\* C14. Fail-fast and first error: the stages of a file run in the order read,
\* render, parse JSON, then for each record classify, decode, insert, and the
\* files run in discovery order; the first stage that fails ends the load: the
\* error bootstrap returns is its error, the transaction is rolled back, and
\* no stage, record or file is processed after it.
FailFast ==
    /\ []FirstError
    /\ [][Done => UNCHANGED <<store, pending, txOpen, idx, elems, result, log, context>>]_vars

\* The second file has an unknown tag and content that is no JSON: bootstrap
\* returns ParseError, after the insert of the first file.
FailFastWitness ==
    /\ FailedOnFile /\ idx = 2
    /\ RecordStageError(files[1].name, files[1].value) = "" /\ Inserts = 1
    /\ TableOf(ObjectType(files[2].name).tag) = "unknown"
    /\ files[2].readable /\ ~files[2].json_ok
    /\ result = "ParseError"

(***************************************************************************)
(* C15                                                                     *)
(***************************************************************************)
\* The positions in the log of a statement.
Positions(stmt) == {i \in 1..Len(log) : log[i] = stmt}

\* C15. Deferral precedes every insert: bootstrap opens one transaction and no
\* other; SET CONSTRAINTS ALL DEFERRED is the first statement in it and is in
\* force before a file is discovered, rendered or inserted; when it fails no
\* file is processed and nothing is inserted; every insert is sent after it and
\* before the commit or rollback of that transaction.
DeferralFirst ==
    /\ Cardinality(Positions("BEGIN")) <= 1
    /\ (pc \notin {"start", "begin"} /\ fault # "setup") =>
          /\ Cardinality(Positions("BEGIN")) = 1
          /\ log[1] = "BEGIN"
          /\ log[2] = "SET CONSTRAINTS ALL DEFERRED"
    /\ pc \in {"glob", "files", "array"} => txOpen /\ deferred
    /\ pending # {} => txOpen /\ deferred
    /\ (idx > 1 \/ elems # <<>>) =>
          Len(log) >= 2 /\ log[2] = "SET CONSTRAINTS ALL DEFERRED"
    /\ \A i \in Positions("INSERT") :
          /\ i > 2
          /\ \A j \in 1..i : log[j] \notin {"COMMIT", "ROLLBACK"}
    /\ (Done /\ fault = "deferral") =>
          /\ result = "DatabaseError"
          /\ log = <<"BEGIN", "SET CONSTRAINTS ALL DEFERRED", "ROLLBACK">>
          /\ idx = 1 /\ elems = <<>>
          /\ store = initial /\ pending = {}

\* The deferral fails in a directory that holds a well-formed file: the file is
\* not applied.
DeferralFirstWitness ==
    /\ Done /\ fault = "deferral"
    /\ Len(files) = 1 /\ WellFormed(files[1])
    /\ result = "DatabaseError" /\ Inserts = 0

(***************************************************************************)
(* C16                                                                     *)
(***************************************************************************)
\* The table of each of the ten types, named as the plural of its tag.
Tables == {pr[2] : pr \in TagPairs}

\* The tag of a file named <name>.<tag>.json.
TagOf(file) == file.name[Len(file.name) - 1]

\* The table that corresponds to a known tag.
TableFor(tag) == (CHOOSE pr \in TagPairs : tag \in {pr[1], pr[2]})[2]

RECURSIVE RecordsFor(_, _)
\* The number of objects the files of the tags of a table hold.
RecordsFor(table, fs) ==
    IF fs = <<>> THEN 0
    ELSE (IF TagOf(Head(fs)) \in KnownTags /\ TableFor(TagOf(Head(fs))) = table
          THEN RecordCount(Head(fs)) ELSE 0) + RecordsFor(table, Tail(fs))

\* The object does not have the fields of the schema of the table.
FailsDecoding(table, o) ==
    IF table = "api_keys" THEN ~DecodeApiKeyInput(o) ELSE ~Decode(table, o).ok

\* C16. Dispatch correctness: each of the twenty tags selects the table of its
\* type; when a load has committed, each object of each file has one row of its
\* own in the table of the tag of its file, with the values of the object, and
\* each table holds as many new rows as the files of its tags hold objects, the
\* other tables none; when the load reaches an object that does not decode
\* against the schema of its type, bootstrap returns DecodeError, the object is
\* not inserted and the store holds no record of the load.
DispatchCorrect ==
    /\ \A pr \in TagPairs : TableOf(pr[1]) = pr[2] /\ TableOf(pr[2]) = pr[2]
    /\ Committed =>
          /\ \A i \in 1..Len(files) : \A j \in 1..Len(Elements(files[i])) :
                \E r \in store \ initial :
                    /\ r.table = TableFor(TagOf(files[i]))
                    /\ \A c \in DOMAIN r.cols \cap DOMAIN Elements(files[i])[j].o :
                          r.cols[c] = Elements(files[i])[j].o[c]
          /\ \A t \in Tables :
                Cardinality({r \in store \ initial : r.table = t}) = RecordsFor(t, files)
          /\ \A r \in store \ initial : r.table \in Tables
    /\ (FailedOnFile /\ FileStageError(files[idx]) = "" /\ Failing.t = "object"
            /\ TagOf(files[idx]) \in KnownTags
            /\ FailsDecoding(TableFor(TagOf(files[idx])), Failing.o)) =>
          /\ result = "DecodeError"
          /\ Inserts = RecordsBeforeFailure
          /\ store = initial

\* A committed load of two files whose rows are in two tables, one of them an
\* array of two objects.
DispatchCorrectWitness ==
    /\ Committed /\ Len(files) = 2
    /\ TableFor(TagOf(files[1])) # TableFor(TagOf(files[2]))
    /\ \E i \in 1..2 : RecordCount(files[i]) = 2
    /\ \A i \in 1..2 : \E r \in store \ initial : r.table = TableFor(TagOf(files[i]))

(***************************************************************************)
(* C17                                                                     *)
(***************************************************************************)
\* Bootstrap has returned Ok and the transaction is committed with every
\* record of the load, or it has returned an error and no record of the load
\* is in the store; the transaction is not open.
SingleOutcome ==
    /\ ~txOpen /\ pending = {}
    /\ result # "running"
    /\ \/ /\ result = "Ok"
          /\ log[Len(log)] = "COMMIT"
          /\ Positions("ROLLBACK") = {}
          /\ store = initial \cup LoadRows
          /\ Cardinality(store \ initial) = TotalRecords(files)
       \/ /\ result # "Ok"
          /\ log # <<>> => log[Len(log)] = "ROLLBACK"
          /\ store = initial

\* C17. Termination with a single outcome: bootstrap ends, whatever files are
\* discovered, and when it has ended it has either returned Ok on a committed
\* transaction, every record of the load in the store, or returned an error on
\* a transaction that is rolled back or was never opened, no record of the load
\* in the store; the transaction is never left open.
Termination ==
    /\ <>Done
    /\ [](Done => SingleOutcome)

\* The files were applied without error and the commit failed on a foreign key.
TerminationWitness ==
    /\ Done /\ idx > Len(files) /\ LoadRows # {}
    /\ result = "IntegrityError"
    /\ SubSeq(log, Len(log) - 1, Len(log)) = <<"COMMIT", "ROLLBACK">>

(***************************************************************************)
(* C18                                                                     *)
(***************************************************************************)
\* A file of a single object O as the file of the array [O], a file of an
\* array [O] of one object as the file of O, any other file as it is.
Rewrapped(file) ==
    IF file.value.t = "object"
    THEN [file EXCEPT !.value = JArray(<<file.value>>)]
    ELSE IF file.value.t = "array" /\ Len(file.value.a) = 1
            /\ file.value.a[1].t = "object"
    THEN [file EXCEPT !.value = file.value.a[1]]
    ELSE file

RECURSIVE Rewrappings(_)
\* The files, each as it is or rewrapped.
Rewrappings(fs) ==
    IF fs = <<>> THEN {<<>>}
    ELSE {<<f>> \o rest : f \in {Head(fs), Rewrapped(Head(fs))},
                          rest \in Rewrappings(Tail(fs))}

\* C18. Single object and singleton array are equivalent: in every state of the
\* transaction, applying a file of the single object O and applying the file of
\* the same name that holds [O] return the same result and leave the same rows
\* on the connection; and bootstrap on the discovered files, any of them
\* rewrapped from O to [O] or from [O] to O, returns what this run returned
\* and leaves the same store.
SingletonEquivalence ==
    /\ \A i \in 1..Len(files) :
          ApplyFile(Conn, files[i]) = ApplyFile(Conn, Rewrapped(files[i]))
    /\ Done => \A s \in Rewrappings(files) :
                  Bootstrap(initial, s) = [result |-> result, store |-> store]

\* A committed load of a file of a single object and a file of an array of one.
SingletonEquivalenceWitness ==
    /\ Committed /\ store # initial
    /\ \E i, j \in 1..Len(files) :
          /\ files[i].value.t = "object"
          /\ files[j].value.t = "array" /\ Len(files[j].value.a) = 1
          /\ Rewrapped(files[i]) # files[i] /\ Rewrapped(files[j]) # files[j]

(***************************************************************************)
(* C19                                                                     *)
(***************************************************************************)
\* The errors of the stages that render a file.
RenderErrors == {"ReadError", "TemplateError", "ParseError"}

\* The context is the one built from the environment before the transaction,
\* and every file has rendered as it renders against that context on its own.
ContextIsEnvironment ==
    /\ pc = "start" => context = {}
    /\ (pc # "start" /\ fault # "setup") => context = ToObject(Environment)
    /\ pc = "begin" => log = <<>> /\ ~txOpen
    /\ pc \in {"files", "array"} =>
          \A i \in 1..(idx - 1) : Render(files[i]) = ""
    /\ pc = "array" => Render(files[idx]) = ""
    /\ FailedOnFile => IF Render(files[idx]) # ""
                       THEN result = Render(files[idx])
                       ELSE result \notin RenderErrors

\* C19. The template context is fixed for the whole load: it is built once from
\* the environment, before the transaction starts; no step after that changes
\* it, whatever the files assign; every file renders as it renders against
\* that context alone, whatever files were rendered and applied before it.
ContextFixed ==
    /\ []ContextIsEnvironment
    /\ [][pc # "start" => context' = context]_vars

\* A file whose template assigns a variable was applied and the file after it,
\* which uses that variable, failed to render.
ContextFixedWitness ==
    /\ FailedOnFile /\ idx = 2
    /\ files[1].assigns # {}
    /\ files[1].assigns \cap files[2].uses # {}
    /\ result = "TemplateError"
    /\ context = ToObject(Environment)

====
